---- MODULE Spec2Model ----
(***************************************************************************)
(* Model of notebooks/AnomalyDetection.ipynb: the AnomalyResult container, *)
(* the deviation formula and the get_anomaly_summary pipeline.             *)
(*                                                                         *)
(* Timestamps are whole minutes after a midnight.  Column values are       *)
(* float64 in the notebook; they are modelled as exact rationals extended  *)
(* with nan, +inf and -inf (rounding is not modelled).                     *)
(***************************************************************************)
EXTENDS Integers, Sequences, FiniteSets, TLC

VARIABLES
    \* get_anomaly_summary: arguments, position, locals
    df, fromTime, toTime, pc, error, ran,
    dfHistoricalData, dfMean, dfMin, dfMax,
    forecastMean, forecastMin, forecastMax,
    \* the successive values of the local merged: after the two merges, after
    \* the 1min resample, after the merge with df, after the deviation column
    corridor, upsampled, joined, merged, result,
    \* one application of the deviation lambda to one row
    x, deviation, applied,
    \* AnomalyResult and its callers: tables live in a heap of objects
    heap, frozen, handles, self_forecast, self_actual, lastOp

pipeVars == <<df, fromTime, toTime, pc, error, ran, dfHistoricalData, dfMean,
              dfMin, dfMax, forecastMean, forecastMin, forecastMax,
              corridor, upsampled, joined, merged, result>>
rowVars == <<x, deviation, applied>>
objVars == <<heap, frozen, handles, self_forecast, self_actual, lastOp>>
vars == <<pipeVars, rowVars, objVars>>

-----------------------------------------------------------------------------
(* float64 values: finite rationals n/d (d > 0, lowest terms), nan, inf,   *)
(* -inf; None is what the deviation lambda returns for "no anomaly".       *)

Abs(i) == IF i < 0 THEN -i ELSE i

RECURSIVE GCD(_, _)
GCD(a, b) == IF b = 0 THEN a ELSE GCD(b, a % b)

Rat(n, d) ==
    LET s == IF d < 0 THEN -1 ELSE 1
        g == GCD(Abs(n), Abs(d))
    IN  [k |-> "fin", n |-> (s * n) \div g, d |-> (s * d) \div g]

Fin(i) == [k |-> "fin", n |-> i, d |-> 1]
NaN == [k |-> "nan", n |-> 0, d |-> 1]
PInf == [k |-> "inf", n |-> 1, d |-> 1]
NInf == [k |-> "inf", n |-> -1, d |-> 1]
None == [k |-> "none", n |-> 0, d |-> 1]

IsNaN(a) == a.k = "nan"
Sign(a) == IF a.n > 0 THEN 1 ELSE IF a.n < 0 THEN -1 ELSE 0

FNeg(a) ==
    CASE a.k = "fin" -> Rat(-a.n, a.d)
      [] a.k = "inf" -> [a EXCEPT !.n = -a.n]
      [] OTHER -> NaN

FAdd(a, b) ==
    CASE a.k = "nan" \/ b.k = "nan" -> NaN
      [] a.k = "inf" /\ b.k = "inf" -> IF a.n = b.n THEN a ELSE NaN
      [] a.k = "inf" -> a
      [] b.k = "inf" -> b
      [] OTHER -> Rat(a.n * b.d + b.n * a.d, a.d * b.d)

FSub(a, b) == FAdd(a, FNeg(b))

FMul(a, b) ==
    CASE a.k = "nan" \/ b.k = "nan" -> NaN
      [] a.k = "inf" \/ b.k = "inf" ->
            IF Sign(a) * Sign(b) = 0 THEN NaN
            ELSE IF Sign(a) * Sign(b) > 0 THEN PInf ELSE NInf
      [] OTHER -> Rat(a.n * b.n, a.d * b.d)

\* numpy float64 division: x/0 is +-inf (0/0 is nan), never an exception
FDiv(a, b) ==
    CASE a.k = "nan" \/ b.k = "nan" -> NaN
      [] a.k = "inf" /\ b.k = "inf" -> NaN
      [] a.k = "inf" -> IF Sign(b) < 0 THEN FNeg(a) ELSE a
      [] b.k = "inf" -> Fin(0)
      [] b.n = 0 -> IF a.n = 0 THEN NaN ELSE IF a.n > 0 THEN PInf ELSE NInf
      [] OTHER -> Rat(a.n * b.d, a.d * b.n)

\* a > b on float64: False whenever either side is nan
FGt(a, b) ==
    CASE a.k = "nan" \/ b.k = "nan" -> FALSE
      [] a.k = "inf" /\ b.k = "inf" -> a.n > b.n
      [] a.k = "inf" -> a.n > 0
      [] b.k = "inf" -> b.n < 0
      [] OTHER -> a.n * b.d > b.n * a.d

-----------------------------------------------------------------------------
(* The deviation lambda of get_anomaly_summary, applied to one row x.      *)

\* a mutant of DeviationOf: the ceiling breach is tested first
DeviationOfHatFirst(r) ==
    IF FGt(r.actual, r.hat) THEN FSub(FDiv(r.actual, r.hat), Fin(1))
    ELSE IF FGt(r.floor, r.actual) THEN FAdd(FDiv(FNeg(r.floor), r.actual), Fin(1))
    ELSE None

\* a mutant of DeviationOf: the ceiling breach is the bare ratio
DeviationOfNoOffset(r) ==
    IF FGt(r.floor, r.actual) THEN FAdd(FDiv(FNeg(r.floor), r.actual), Fin(1))
    ELSE IF FGt(r.actual, r.hat) THEN FDiv(r.actual, r.hat)
    ELSE None

DeviationOf(r) ==
    IF FGt(r.floor, r.actual) THEN FAdd(FDiv(FNeg(r.floor), r.actual), Fin(1))
    ELSE IF FGt(r.actual, r.hat) THEN FSub(FDiv(r.actual, r.hat), Fin(1))
    ELSE None

-----------------------------------------------------------------------------
(* Tables.  A table is a sequence of rows, each row a record with its      *)
(* index t and its columns.                                                *)

interval_length == 30

Timestamps(tab) == {tab[i].t : i \in DOMAIN tab}
SetMin(S) == CHOOSE m \in S : \A o \in S : m <= o
SetMax(S) == CHOOSE m \in S : \A o \in S : m >= o

RECURSIVE SortedSeq(_)
SortedSeq(S) == IF S = {} THEN <<>> ELSE <<SetMin(S)>> \o SortedSeq(S \ {SetMin(S)})

RECURSIVE FSum(_)
FSum(vs) == IF vs = <<>> THEN Fin(0) ELSE FAdd(Head(vs), FSum(Tail(vs)))

RECURSIVE FLeast(_)
FLeast(vs) ==
    IF Len(vs) = 1 THEN Head(vs)
    ELSE LET m == FLeast(Tail(vs)) IN IF FGt(m, Head(vs)) THEN Head(vs) ELSE m

RECURSIVE FGreatest(_)
FGreatest(vs) ==
    IF Len(vs) = 1 THEN Head(vs)
    ELSE LET m == FGreatest(Tail(vs)) IN IF FGt(Head(vs), m) THEN Head(vs) ELSE m

\* int(a / b) for b > 0: Python's int() truncates towards zero
TruncDiv(a, b) == IF a >= 0 THEN a \div b ELSE -((-a) \div b)

get_minutes_between_dates(from_time, to_time) == to_time - from_time

prediction_intervals == TruncDiv(get_minutes_between_dates(fromTime, toTime), interval_length)

\* a mutant of ValidationError: the emptiness check is missing
ValidationErrorNoEmptyCheck(d) ==
    IF "value" \notin d.columns THEN "DataFrame must contain column: {'value'}"
    ELSE IF ~d.numeric THEN "'value' column must contain numeric data"
    ELSE IF ~d.datetimeIndex THEN "DataFrame must have a DatetimeIndex"
    ELSE "ok"

\* a mutant of ValidationError: the index must also be strictly increasing
ValidationErrorSorted(d) ==
    IF "value" \notin d.columns THEN "DataFrame must contain column: {'value'}"
    ELSE IF d.rows = <<>> THEN "DataFrame cannot be empty"
    ELSE IF ~d.numeric THEN "'value' column must contain numeric data"
    ELSE IF ~d.datetimeIndex THEN "DataFrame must have a DatetimeIndex"
    ELSE IF \E i \in 1..(Len(d.rows) - 1) : d.rows[i].t >= d.rows[i + 1].t
         THEN "index must be strictly increasing"
    ELSE "ok"

\* the pre-flight checks, in the order the code makes them
ValidationError(d) ==
    IF "value" \notin d.columns THEN "DataFrame must contain column: {'value'}"
    ELSE IF d.rows = <<>> THEN "DataFrame cannot be empty"
    ELSE IF ~d.numeric THEN "'value' column must contain numeric data"
    ELSE IF ~d.datetimeIndex THEN "DataFrame must have a DatetimeIndex"
    ELSE "ok"

\* df[(df.index < fromTime)]
HistoricalData(d, from_time) == SelectSeq(d.rows, LAMBDA r : r.t < from_time)

\* start of the interval_length-minute bin holding t (bins are aligned to midnight)
Bucket(t) == t - (t % interval_length)

\* the bins of a resample: every bin from the first sample's to the last sample's
BucketGrid(rows) ==
    IF rows = <<>> THEN {}
    ELSE {b \in Bucket(SetMin(Timestamps(rows)))..Bucket(SetMax(Timestamps(rows))) :
            b % interval_length = 0}

\* the non-missing values of the samples in bin b
BucketValues(rows, b) ==
    LET inBin == SelectSeq(rows, LAMBDA r : r.t >= b /\ r.t < b + interval_length
                                            /\ ~IsNaN(r.value))
    IN  [i \in DOMAIN inBin |-> inBin[i].value]

Aggregate(kind, vs) ==
    IF vs = <<>> THEN NaN
    ELSE CASE kind = "mean" -> FDiv(FSum(vs), Fin(Len(vs)))
           [] kind = "min" -> FLeast(vs)
           [] kind = "max" -> FGreatest(vs)

\* dfHistoricalData.resample('30min').mean() / .min() / .max()
Resample(rows, kind) ==
    LET grid == SortedSeq(BucketGrid(rows))
    IN  [i \in DOMAIN grid |->
            [t |-> grid[i], value |-> Aggregate(kind, BucketValues(rows, grid[i]))]]

-----------------------------------------------------------------------------
(* The predictor (AutoGluon) is outside the notebook: generate_forecast    *)
(* either raises or returns a forecast.  A forecast follows the last bin   *)
(* of the summary it was fitted on, one bin apart; which of the requested  *)
(* bins it covers and the values it gives are left open.  Only the column  *)
(* get_anomaly_summary reads from each forecast is kept, as value.         *)

ForecastValues == {Fin(1), Fin(4)}

ForecastGrid(summary, horizon) ==
    IF summary = <<>> \/ horizon < 1 THEN {}
    ELSE {summary[Len(summary)].t + k * interval_length : k \in 1..horizon}

ForecastTable(f) ==
    LET ts == SortedSeq(DOMAIN f)
    IN  [i \in DOMAIN ts |-> [t |-> ts[i], value |-> f[ts[i]]]]

Ok(tab) == [err |-> "", table |-> tab]
Raised(e) == [err |-> e, table |-> <<>>]

generate_forecast(summary, prediction_length) ==
    {Raised("PredictorError")} \cup
    {Ok(ForecastTable(f)) :
        f \in UNION {[S -> ForecastValues] :
                        S \in SUBSET ForecastGrid(summary, prediction_length)}}

RowAt(tab, t) == tab[CHOOSE i \in DOMAIN tab : tab[i].t = t]

\* the two pd.merge(..., how='inner') calls on the index: mean of the mean
\* forecast, '0.1' of the min forecast (floor), '0.9' of the max forecast (hat)
Merge(fMean, fMin, fMax) ==
    LET first == SelectSeq(fMean, LAMBDA r : r.t \in Timestamps(fMin))
        both == SelectSeq(first, LAMBDA r : r.t \in Timestamps(fMax))
    IN  Ok([i \in DOMAIN both |->
              [t |-> both[i].t, mean |-> both[i].value,
               floor |-> RowAt(fMin, both[i].t).value,
               hat |-> RowAt(fMax, both[i].t).value]])

\* interpolate(method='time'): linear in time between the surrounding rows
Interpolate(corr, t, col) ==
    LET lo == SetMax({s \in Timestamps(corr) : s <= t})
        hi == SetMin({s \in Timestamps(corr) : s >= t})
        v0 == RowAt(corr, lo)[col]
        v1 == RowAt(corr, hi)[col]
    IN  IF lo = hi THEN v0
        ELSE FAdd(v0, FMul(FSub(v1, v0), Rat(t - lo, hi - lo)))

UpsampleRows(corr) ==
    LET ts == SortedSeq(SetMin(Timestamps(corr))..SetMax(Timestamps(corr)))
    IN  [i \in DOMAIN ts |->
            [t |-> ts[i], mean |-> Interpolate(corr, ts[i], "mean"),
             floor |-> Interpolate(corr, ts[i], "floor"),
             hat |-> Interpolate(corr, ts[i], "hat")]]

\* a mutant of Upsample: the grid runs one bin past the last corridor row
UpsampleExtrapolated(corr) ==
    IF corr = <<>> THEN Ok(<<>>)
    ELSE LET last == corr[Len(corr)]
             ext == Append(corr, [last EXCEPT !.t = last.t + interval_length])
         IN  Ok(UpsampleRows(ext))

\* reset_index().set_index('timestamp').drop(['item_id']).resample('1min')
\* .interpolate(method='time').rename(...); an empty table stays empty
Upsample(corr) ==
    IF corr = <<>> THEN Ok(<<>>) ELSE Ok(UpsampleRows(corr))

JoinRow(l, r) ==
    [t |-> l.t, mean |-> l.mean, floor |-> l.floor, hat |-> l.hat, actual |-> r.value]

RECURSIVE JoinFrom(_, _, _)
JoinFrom(up, i, rows) ==
    IF i > Len(up) THEN <<>>
    ELSE LET hits == SelectSeq(rows, LAMBDA r : r.t = up[i].t)
         IN  [j \in DOMAIN hits |-> JoinRow(up[i], hits[j])] \o JoinFrom(up, i + 1, rows)

RECURSIVE LeftJoinFrom(_, _, _)
LeftJoinFrom(up, i, rows) ==
    IF i > Len(up) THEN <<>>
    ELSE LET hits == SelectSeq(rows, LAMBDA r : r.t = up[i].t)
         IN  (IF hits = <<>> THEN <<JoinRow(up[i], [t |-> up[i].t, value |-> NaN])>>
              ELSE [j \in DOMAIN hits |-> JoinRow(up[i], hits[j])])
             \o LeftJoinFrom(up, i + 1, rows)

\* a mutant of JoinActual: the actuals are left-joined
JoinActualLeft(up, d) == Ok(LeftJoinFrom(up, 1, d.rows))

\* pd.merge(merged, df[['value']], how='inner') on the index, value -> actual
JoinActual(up, d) == Ok(JoinFrom(up, 1, d.rows))

WithDeviation(r) ==
    [t |-> r.t, mean |-> r.mean, floor |-> r.floor, hat |-> r.hat,
     actual |-> r.actual, deviation |-> DeviationOf(r)]

\* a mutant of Score: on an empty table apply hands back the table itself and
\* storing it as the one column deviation raises
ScoreEmptyRaises(tab) ==
    IF tab = <<>> THEN Raised("ValueError")
    ELSE Ok([i \in DOMAIN tab |-> WithDeviation(tab[i])])

\* merged['deviation'] = merged.apply(lambda x: ..., axis=1); on an empty table
\* apply yields an empty column (pandas 1.5 and later)
Score(tab) == Ok([i \in DOMAIN tab |-> WithDeviation(tab[i])])

\* a mutant of Propagates: the failure is swallowed and the stage's table is empty
PropagatesNever(out) == FALSE

\* an exception raised inside a call leaves get_anomaly_summary: there is no
\* try/except in it or in generate_forecast
Propagates(out) == out.err # ""

-----------------------------------------------------------------------------
(* get_anomaly_summary(df, fromTime, toTime), one step per stage.          *)

MaxRows == 2
SampleTimes == {10, 70, 95}
ActualValues == {Fin(2), Fin(6)}
FromTimes == {90}
ToTimes == {60, 100, 120, 150}

BoundedSeq(S, n) == UNION {[1..m -> S] : m \in 0..n}

DataFrames ==
    [columns : {{}, {"value"}}, numeric : BOOLEAN, datetimeIndex : BOOLEAN,
     rows : BoundedSeq([t : SampleTimes, value : ActualValues], MaxRows)]

NoError == [type |-> "", msg |-> ""]
NoResult == [constructed |-> FALSE, _forecast |-> <<>>, _actual |-> <<>>]

PipeIdle ==
    /\ df = [columns |-> {}, numeric |-> FALSE, datetimeIndex |-> FALSE, rows |-> <<>>]
    /\ fromTime = 0 /\ toTime = 0
    /\ pc = "idle" /\ error = NoError /\ ran = <<>>
    /\ dfHistoricalData = <<>> /\ dfMean = <<>> /\ dfMin = <<>> /\ dfMax = <<>>
    /\ forecastMean = <<>> /\ forecastMin = <<>> /\ forecastMax = <<>>
    /\ corridor = <<>> /\ upsampled = <<>> /\ joined = <<>> /\ merged = <<>>
    /\ result = NoResult

RowIdle ==
    /\ x = [mean |-> NaN, floor |-> NaN, hat |-> NaN, actual |-> NaN]
    /\ deviation = None /\ applied = FALSE

ObjIdle ==
    /\ heap = <<>> /\ frozen = {} /\ handles = {}
    /\ self_forecast = 0 /\ self_actual = 0 /\ lastOp = [op |-> "idle", obj |-> 0]

PipeInit ==
    /\ df \in DataFrames
    /\ fromTime \in FromTimes /\ toTime \in ToTimes
    /\ pc = "validate" /\ error = NoError /\ ran = <<>>
    /\ dfHistoricalData = <<>> /\ dfMean = <<>> /\ dfMin = <<>> /\ dfMax = <<>>
    /\ forecastMean = <<>> /\ forecastMin = <<>> /\ forecastMax = <<>>
    /\ corridor = <<>> /\ upsampled = <<>> /\ joined = <<>> /\ merged = <<>>
    /\ result = NoResult

Init == PipeInit /\ RowIdle /\ ObjIdle

Fail(type, msg) == pc' = "failed" /\ error' = [type |-> type, msg |-> msg]

Validate ==
    /\ pc = "validate"
    /\ IF ValidationError(df) # "ok"
       THEN Fail("ValueError", ValidationError(df))
       ELSE pc' = "slice" /\ UNCHANGED error
    /\ UNCHANGED <<rowVars, objVars, df, fromTime, toTime, ran, dfHistoricalData, dfMean, dfMin, dfMax,
                   forecastMean, forecastMin, forecastMax, corridor, upsampled,
                   joined, merged, result>>

Slice ==
    /\ pc = "slice"
    /\ dfHistoricalData' = HistoricalData(df, fromTime)
    /\ pc' = "resample"
    /\ ran' = Append(ran, [stage |-> "slice", raised |-> FALSE])
    /\ UNCHANGED <<rowVars, objVars, df, fromTime, toTime, error, dfMean, dfMin, dfMax,
                   forecastMean, forecastMin, forecastMax, corridor, upsampled,
                   joined, merged, result>>

ResampleStep ==
    /\ pc = "resample"
    /\ dfMean' = Resample(dfHistoricalData, "mean")
    /\ dfMin' = Resample(dfHistoricalData, "min")
    /\ dfMax' = Resample(dfHistoricalData, "max")
    /\ pc' = "forecast_mean"
    /\ ran' = Append(ran, [stage |-> "resample", raised |-> FALSE])
    /\ UNCHANGED <<rowVars, objVars, df, fromTime, toTime, error, dfHistoricalData,
                   forecastMean, forecastMin, forecastMax, corridor, upsampled,
                   joined, merged, result>>

\* one stage: its call either raises, which ends the run, or yields its table;
\* ran is the log of the calls made and whether the callee raised
Stage(name, out, next) ==
    /\ ran' = Append(ran, [stage |-> name, raised |-> out.err # ""])
    /\ IF Propagates(out) THEN Fail(out.err, name)
       ELSE pc' = next /\ UNCHANGED error

ForecastMeanStep ==
    /\ pc = "forecast_mean"
    /\ \E out \in generate_forecast(dfMean, prediction_intervals) :
          /\ Stage("forecast_mean", out, "forecast_min")
          /\ forecastMean' = out.table
    /\ UNCHANGED <<rowVars, objVars, df, fromTime, toTime, dfHistoricalData, dfMean, dfMin, dfMax,
                   forecastMin, forecastMax, corridor, upsampled, joined, merged, result>>

ForecastMinStep ==
    /\ pc = "forecast_min"
    /\ \E out \in generate_forecast(dfMin, prediction_intervals) :
          /\ Stage("forecast_min", out, "forecast_max")
          /\ forecastMin' = out.table
    /\ UNCHANGED <<rowVars, objVars, df, fromTime, toTime, dfHistoricalData, dfMean, dfMin, dfMax,
                   forecastMean, forecastMax, corridor, upsampled, joined, merged, result>>

ForecastMaxStep ==
    /\ pc = "forecast_max"
    /\ \E out \in generate_forecast(dfMax, prediction_intervals) :
          /\ Stage("forecast_max", out, "merge")
          /\ forecastMax' = out.table
    /\ UNCHANGED <<rowVars, objVars, df, fromTime, toTime, dfHistoricalData, dfMean, dfMin, dfMax,
                   forecastMean, forecastMin, corridor, upsampled, joined, merged, result>>

MergeStep ==
    /\ pc = "merge"
    /\ LET out == Merge(forecastMean, forecastMin, forecastMax)
       IN  Stage("merge", out, "upsample") /\ corridor' = out.table
    /\ UNCHANGED <<rowVars, objVars, df, fromTime, toTime, dfHistoricalData, dfMean, dfMin, dfMax,
                   forecastMean, forecastMin, forecastMax, upsampled, joined, merged, result>>

UpsampleStep ==
    /\ pc = "upsample"
    /\ LET out == Upsample(corridor)
       IN  Stage("upsample", out, "join") /\ upsampled' = out.table
    /\ UNCHANGED <<rowVars, objVars, df, fromTime, toTime, dfHistoricalData, dfMean, dfMin, dfMax,
                   forecastMean, forecastMin, forecastMax, corridor, joined, merged, result>>

JoinStep ==
    /\ pc = "join"
    /\ LET out == JoinActual(upsampled, df)
       IN  Stage("join", out, "score") /\ joined' = out.table
    /\ UNCHANGED <<rowVars, objVars, df, fromTime, toTime, dfHistoricalData, dfMean, dfMin, dfMax,
                   forecastMean, forecastMin, forecastMax, corridor, upsampled, merged, result>>

ScoreStep ==
    /\ pc = "score"
    /\ LET out == Score(joined)
       IN  Stage("score", out, "construct") /\ merged' = out.table
    /\ UNCHANGED <<rowVars, objVars, df, fromTime, toTime, dfHistoricalData, dfMean, dfMin, dfMax,
                   forecastMean, forecastMin, forecastMax, corridor, upsampled, joined, result>>

\* return AnomalyResult(forecast_data=merged, actual_data=df)
Construct ==
    /\ pc = "construct"
    /\ result' = [constructed |-> TRUE, _forecast |-> merged, _actual |-> df.rows]
    /\ pc' = "done"
    /\ ran' = Append(ran, [stage |-> "construct", raised |-> FALSE])
    /\ UNCHANGED <<rowVars, objVars, df, fromTime, toTime, error, dfHistoricalData, dfMean, dfMin, dfMax,
                   forecastMean, forecastMin, forecastMax, corridor, upsampled,
                   joined, merged>>

Next ==
    \/ Validate \/ Slice \/ ResampleStep
    \/ ForecastMeanStep \/ ForecastMinStep \/ ForecastMaxStep
    \/ MergeStep \/ UpsampleStep \/ JoinStep \/ ScoreStep \/ Construct

Spec == Init /\ [][Next]_vars

-----------------------------------------------------------------------------
(* The deviation lambda on its own: one row x drawn from a grid of values  *)
(* (halves between -MaxVal and MaxVal, and nan), then the lambda applied.  *)

MaxVal == 2
RowValues == {Rat(i, 2) : i \in (-2 * MaxVal)..(2 * MaxVal)} \cup {NaN}

RowInit ==
    /\ x \in [mean : {Fin(0)}, floor : RowValues, hat : RowValues, actual : RowValues]
    /\ deviation = None
    /\ applied = FALSE

InitRow == PipeIdle /\ RowInit /\ ObjIdle

Apply ==
    /\ ~applied
    /\ deviation' = DeviationOf(x)
    /\ applied' = TRUE
    /\ UNCHANGED <<x, pipeVars, objVars>>

NextRow == Apply

SpecRow == InitRow /\ [][NextRow]_vars

-----------------------------------------------------------------------------
(* AnomalyResult and the code that holds references to tables.  heap[o] is *)
(* the content of table object o (a table is abstracted to one column of   *)
(* cells).  Objects 1 and 2 are the caller's forecast_data and actual_data.*)
(* frozen holds the objects whose cell buffer is read-only.                *)

MaxObjects == 4
MaxCells == 1
Cells == {0, 1}
Tables == BoundedSeq(Cells, MaxCells)

ObjInit ==
    /\ heap \in [1..2 -> Tables]
    /\ frozen = {}
    /\ handles = {}
    /\ self_forecast = 0 /\ self_actual = 0
    /\ lastOp = [op |-> "start", obj |-> 0]

InitObj == PipeIdle /\ RowIdle /\ ObjInit

constructed == self_forecast # 0

\* self._forecast = forecast_data
KeptForecast(h, forecast_data) == [heap |-> h, ref |-> forecast_data]

\* self._actual = actual_data.copy()
KeptActual(h, actual_data) == [heap |-> Append(h, h[actual_data]), ref |-> Len(h) + 1]

\* values.flags.writeable = False is set on the array .values hands out; whether
\* that array is the table's own buffer or a fresh one depends on the table's
\* dtypes and the pandas build, so either the buffer ends read-only or it does not
New ==
    /\ ~constructed
    /\ LET f == KeptForecast(heap, 1)
           a == KeptActual(f.heap, 2)
       IN  /\ heap' = a.heap
           /\ self_forecast' = f.ref
           /\ self_actual' = a.ref
           /\ \E eff \in SUBSET {f.ref, a.ref} : frozen' = eff
    /\ lastOp' = [op |-> "new", obj |-> 0]
    /\ UNCHANGED <<handles, pipeVars, rowVars>>

\* a mutant of forecast: the stored table itself is returned
forecastShared(h) == [heap |-> h, ref |-> self_forecast]

\* return self._forecast.copy()
forecast(h) == [heap |-> Append(h, h[self_forecast]), ref |-> Len(h) + 1]

\* return self._actual.copy()
actual(h) == [heap |-> Append(h, h[self_actual]), ref |-> Len(h) + 1]

ReadForecast ==
    /\ constructed
    /\ Len(heap) < MaxObjects
    /\ LET got == forecast(heap)
       IN  /\ heap' = got.heap
           /\ handles' = handles \cup {got.ref}
           /\ lastOp' = [op |-> "forecast", obj |-> got.ref]
    /\ UNCHANGED <<pipeVars, rowVars, frozen, self_forecast, self_actual>>

ReadActual ==
    /\ constructed
    /\ Len(heap) < MaxObjects
    /\ LET got == actual(heap)
       IN  /\ heap' = got.heap
           /\ handles' = handles \cup {got.ref}
           /\ lastOp' = [op |-> "actual", obj |-> got.ref]
    /\ UNCHANGED <<pipeVars, rowVars, frozen, self_forecast, self_actual>>

\* the tables the calling code holds a reference to
Held == ({1, 2} \cap DOMAIN heap) \cup handles

\* the caller writes one cell of a table it holds, through the table's buffer
WriteCell ==
    /\ \E o \in Held \ frozen : \E i \in DOMAIN heap[o], v \in Cells :
          /\ heap[o][i] # v
          /\ heap' = [heap EXCEPT ![o][i] = v]
          /\ lastOp' = [op |-> "write", obj |-> o]
    /\ UNCHANGED <<pipeVars, rowVars, frozen, handles, self_forecast, self_actual>>

\* the caller drops the last row of a table it holds, in place
DropRow ==
    /\ \E o \in Held :
          /\ heap[o] # <<>>
          /\ heap' = [heap EXCEPT ![o] = SubSeq(heap[o], 1, Len(heap[o]) - 1)]
          /\ lastOp' = [op |-> "drop", obj |-> o]
    /\ UNCHANGED <<pipeVars, rowVars, frozen, handles, self_forecast, self_actual>>

\* the caller adds a row to a table it holds, in place
AddRow ==
    /\ \E o \in Held :
          /\ Len(heap[o]) < MaxCells
          /\ \E v \in Cells : heap' = [heap EXCEPT ![o] = Append(heap[o], v)]
          /\ lastOp' = [op |-> "add", obj |-> o]
    /\ UNCHANGED <<pipeVars, rowVars, frozen, handles, self_forecast, self_actual>>

NextObj == New \/ ReadForecast \/ ReadActual \/ WriteCell \/ DropRow \/ AddRow

SpecObj == InitObj /\ [][NextObj]_vars

-----------------------------------------------------------------------------
(* Properties.                                                             *)

Mutators == {"write", "drop", "add"}

\* C1: mutating a table obtained from .forecast or .actual never changes what
\* a later read of .forecast or .actual returns (checked under SpecObj).
C1_AccessorCopiesIndependent ==
    [][\A o \in handles :
          heap'[o] # heap[o] =>
             /\ heap'[self_forecast] = heap[self_forecast]
             /\ heap'[self_actual] = heap[self_actual]]_vars

\* a table returned by an accessor has been changed and now differs from both
\* stored tables
C1_Witness ==
    /\ constructed
    /\ lastOp.op \in Mutators
    /\ lastOp.obj \in handles
    /\ heap[lastOp.obj] # heap[self_forecast]
    /\ heap[lastOp.obj] # heap[self_actual]

\* C10: after construction no caller-side mutation, of a table passed to the
\* constructor or of a table returned by an accessor, changes what .forecast
\* or .actual returns (checked under SpecObj).
C10_NoSharedState ==
    [][constructed =>
          /\ heap'[self_forecast'] = heap[self_forecast]
          /\ heap'[self_actual'] = heap[self_actual]]_vars

FLe(a, b) == ~IsNaN(a) /\ ~IsNaN(b) /\ ~FGt(a, b)

\* the three-branch reference of the deviation
Reference(r) ==
    IF FGt(r.floor, r.actual) THEN FSub(Fin(1), FDiv(r.floor, r.actual))
    ELSE IF FGt(r.actual, r.hat) THEN FSub(FDiv(r.actual, r.hat), Fin(1))
    ELSE None

\* C2: the deviation of a row is 1 - floor/actual when floor > actual, else
\* actual/ceiling - 1 when actual > ceiling, else absent; in particular it is
\* absent when floor <= actual <= ceiling and 1 - floor/actual when
\* floor > actual (checked under SpecRow).
C2_DeviationThreeBranch ==
    applied =>
       /\ deviation = Reference(x)
       /\ (FLe(x.floor, x.actual) /\ FLe(x.actual, x.hat)) => deviation = None
       /\ FGt(x.floor, x.actual) => deviation = FSub(Fin(1), FDiv(x.floor, x.actual))

\* a row below its floor and above its ceiling at once, scored by the floor
C2_Witness ==
    /\ applied
    /\ FGt(x.floor, x.actual) /\ FGt(x.actual, x.hat)
    /\ deviation = FSub(Fin(1), FDiv(x.floor, x.actual))
    /\ deviation.k = "fin"

\* C3 as stated: whenever actual > ceiling > 0 the deviation is
\* actual/ceiling - 1 > 0, whatever the floor (checked under SpecRow).
C3_CeilingBreachAnyFloor ==
    (applied /\ FGt(x.actual, x.hat) /\ FGt(x.hat, Fin(0))) =>
       /\ deviation = FSub(FDiv(x.actual, x.hat), Fin(1))
       /\ FGt(deviation, Fin(0))

\* C3 amended: whenever actual > ceiling > 0 and the floor is not above the
\* actual, the deviation is actual/ceiling - 1 > 0 (checked under SpecRow).
C3_CeilingBreachFloorNotAbove ==
    (applied /\ FGt(x.actual, x.hat) /\ FGt(x.hat, Fin(0)) /\ ~FGt(x.floor, x.actual)) =>
       /\ deviation = FSub(FDiv(x.actual, x.hat), Fin(1))
       /\ FGt(deviation, Fin(0))

\* a ceiling breach on a crossed corridor: ceiling < floor <= actual
C3_Witness ==
    /\ applied
    /\ FGt(x.actual, x.hat) /\ FGt(x.hat, Fin(0))
    /\ FGt(x.floor, x.hat) /\ FLe(x.floor, x.actual)
    /\ FGt(deviation, Fin(0))

Invalid(d) ==
    \/ "value" \notin d.columns
    \/ d.rows = <<>>
    \/ ~d.numeric
    \/ ~d.datetimeIndex

NothingComputed ==
    /\ ran = <<>>
    /\ dfHistoricalData = <<>> /\ dfMean = <<>> /\ dfMin = <<>> /\ dfMax = <<>>
    /\ forecastMean = <<>> /\ forecastMin = <<>> /\ forecastMax = <<>>
    /\ corridor = <<>> /\ upsampled = <<>> /\ joined = <<>> /\ merged = <<>>
    /\ ~result.constructed

RejectedByValidation == pc = "failed" /\ error.type = "ValueError" /\ NothingComputed

\* C4: an empty input, a non-numeric value column, a missing value column or
\* an index that is not a time index raises a validation error before any
\* stage runs, and no AnomalyResult is constructed (checked under Spec).
C4_InvalidInputRejectedFirst ==
    (Invalid(df) /\ pc # "validate") => RejectedByValidation

\* an empty table that is otherwise well formed has been rejected
C4_Witness ==
    /\ RejectedByValidation
    /\ df.rows = <<>> /\ "value" \in df.columns /\ df.numeric /\ df.datetimeIndex

Unsorted(d) == \E i \in 1..(Len(d.rows) - 1) : d.rows[i].t >= d.rows[i + 1].t

Ran(name) == \E i \in DOMAIN ran : ran[i].stage = name

\* C5 as stated: an input whose timestamps are not strictly increasing fails
\* with a validation error before any aggregation (checked under Spec).
C5_UnsortedRejected ==
    (Unsorted(df) /\ pc # "validate") => RejectedByValidation

\* C5 amended: the entry point fails with a validation error before any
\* aggregation exactly when the value column is missing, the input is empty,
\* the value column is not numeric or the index is not a time index; the order
\* of the timestamps is not checked, and an input that passes these checks is
\* aggregated even when its timestamps are out of order or duplicated
\* (checked under Spec).
C5_OnlyFourChecksReject ==
    pc # "validate" =>
       /\ RejectedByValidation <=> Invalid(df)
       /\ (Unsorted(df) /\ ~Invalid(df) /\ pc \notin {"slice", "resample"})
             => (Ran("resample") /\ error.type # "ValueError")

\* an input with out-of-order or duplicated timestamps has run to the end
C5_Witness == Unsorted(df) /\ pc = "done" /\ Ran("resample") /\ result.constructed

ForecastStages == {"forecast_mean", "forecast_min", "forecast_max"}
LaterStages == {"merge", "upsample", "join", "score", "construct"}

\* C6: a forecast request that fails ends the run there: the failure is the
\* run's error, the request is not made again, no later forecast, merge,
\* upsampling, scoring or construction happens (checked under Spec).
C6_ForecastFailureIsFatal ==
    \A i \in DOMAIN ran :
       (ran[i].stage \in ForecastStages /\ ran[i].raised) =>
          /\ i = Len(ran)
          /\ pc = "failed" /\ error.type = "PredictorError" /\ error.msg = ran[i].stage
          /\ \A j \in 1..(i - 1) : ran[j].stage # ran[i].stage
          /\ \A j \in DOMAIN ran : ran[j].stage \notin LaterStages
          /\ ran[i].stage = "forecast_mean" => (forecastMin = <<>> /\ forecastMax = <<>>)
          /\ ran[i].stage = "forecast_min" => forecastMax = <<>>
          /\ corridor = <<>> /\ upsampled = <<>> /\ joined = <<>> /\ merged = <<>>
          /\ ~result.constructed

\* the second request failed after the first returned a forecast
C6_Witness ==
    /\ pc = "failed" /\ error.type = "PredictorError"
    /\ forecastMean # <<>>
    /\ ran[Len(ran)].stage = "forecast_min" /\ ran[Len(ran)].raised

ForecastsReturned == \E i \in DOMAIN ran : ran[i].stage = "forecast_max" /\ ~ran[i].raised

NoCommonTimestamp ==
    Timestamps(forecastMean) \cap Timestamps(forecastMin) \cap Timestamps(forecastMax) = {}

\* C7: when the three forecasts share no timestamp (or one is empty) the
\* corridor is empty, upsampling and scoring do not raise, the deviation table
\* is empty and the AnomalyResult is constructed with an empty forecast table
\* (checked under Spec).
C7_EmptyCorridorRunsThrough ==
    (ForecastsReturned /\ NoCommonTimestamp) =>
       /\ pc \in {"merge", "upsample", "join", "score", "construct", "done"}
       /\ \A i \in DOMAIN ran : ~ran[i].raised
       /\ corridor = <<>> /\ upsampled = <<>> /\ joined = <<>> /\ merged = <<>>
       /\ pc = "done" => (result.constructed /\ result._forecast = <<>>
                          /\ Ran("upsample") /\ Ran("score"))

\* three forecasts that are each non-empty and share no timestamp, run to the end
C7_Witness ==
    /\ pc = "done" /\ result.constructed
    /\ forecastMean # <<>> /\ forecastMin # <<>> /\ forecastMax # <<>>
    /\ NoCommonTimestamp

\* C8: the timestamps of the deviation table are timestamps of the upsampled
\* corridor and of the actual series (checked under Spec).
C8_DeviationTableWithinJoin ==
    /\ Timestamps(joined) \subseteq (Timestamps(upsampled) \cap Timestamps(df.rows))
    /\ Timestamps(merged) \subseteq (Timestamps(upsampled) \cap Timestamps(df.rows))
    /\ Timestamps(result._forecast) \subseteq (Timestamps(upsampled) \cap Timestamps(df.rows))

\* a deviation table that leaves out corridor minutes without an actual and
\* actuals outside the corridor
C8_Witness ==
    /\ pc = "done" /\ merged # <<>>
    /\ Timestamps(upsampled) \ Timestamps(df.rows) # {}
    /\ Timestamps(df.rows) \ Timestamps(upsampled) # {}

\* C9 as stated: at every stage the timestamps of the output are timestamps of
\* the stage's inputs (checked under Spec).
C9_NoStageInventsTimestamps ==
    /\ Timestamps(dfHistoricalData) \subseteq Timestamps(df.rows)
    /\ Timestamps(dfMean) \subseteq Timestamps(dfHistoricalData)
    /\ Timestamps(dfMin) \subseteq Timestamps(dfHistoricalData)
    /\ Timestamps(dfMax) \subseteq Timestamps(dfHistoricalData)
    /\ Timestamps(forecastMean) \subseteq Timestamps(dfMean)
    /\ Timestamps(forecastMin) \subseteq Timestamps(dfMin)
    /\ Timestamps(forecastMax) \subseteq Timestamps(dfMax)
    /\ Timestamps(corridor) \subseteq
          (Timestamps(forecastMean) \cap Timestamps(forecastMin) \cap Timestamps(forecastMax))
    /\ Timestamps(upsampled) \subseteq Timestamps(corridor)
    /\ Timestamps(merged) \subseteq (Timestamps(upsampled) \cap Timestamps(df.rows))

WithinSpan(ts, of) == \A t \in ts : \E a \in of, b \in of : a <= t /\ t <= b

OnBinGrid(summary) ==
    /\ \A t \in Timestamps(summary) : t % interval_length = 0
    /\ WithinSpan(Timestamps(summary), {Bucket(t) : t \in Timestamps(dfHistoricalData)})

\* C9 amended: the selecting and joining stages invent no timestamp (the
\* historical slice is part of the input, the corridor's timestamps are common
\* to the three forecasts, the deviation table's are timestamps of the upsampled
\* corridor); the resampling stages put their output on a regular grid inside
\* the span of their input (30-minute bins from the first to the last
\* historical sample's bin, minutes from the first to the last corridor
\* timestamp), whose points need not be input timestamps (checked under Spec).
C9_JoinsSelectResamplesStayInSpan ==
    /\ Timestamps(dfHistoricalData) \subseteq Timestamps(df.rows)
    /\ OnBinGrid(dfMean) /\ OnBinGrid(dfMin) /\ OnBinGrid(dfMax)
    /\ Timestamps(corridor) \subseteq
          (Timestamps(forecastMean) \cap Timestamps(forecastMin) \cap Timestamps(forecastMax))
    /\ WithinSpan(Timestamps(upsampled), Timestamps(corridor))
    /\ Timestamps(merged) \subseteq Timestamps(upsampled)

\* a finished run whose summaries and upsampled corridor hold grid points that
\* are no input timestamps
C9_Witness ==
    /\ pc = "done" /\ merged # <<>>
    /\ Timestamps(dfMean) \ Timestamps(dfHistoricalData) # {}
    /\ Timestamps(upsampled) \ Timestamps(corridor) # {}

====
